---- MODULE Spec2Model ----
(***************************************************************************)
(* GDAltWebserver: the persistence core of the account backup server.      *)
(*                                                                         *)
(* The store is the two MySQL tables `accounts` and `saves`.  Every HTTP   *)
(* handler runs in its own goroutine; a handler is modelled as a sequence  *)
(* of steps, one step per statement sent to the store or request sent to   *)
(* the Argon validation service, so that handlers interleave exactly where *)
(* the program can be preempted.  Time is counted in minutes.              *)
(***************************************************************************)
EXTENDS Integers, Sequences, FiniteSets, TLC

(***************************************************************************)
(* Bounds of the model and configuration of the deployment.                *)
(***************************************************************************)
\* number of clock advances explored
MaxTicks == 1
\* env MAX_DATA_SIZE_BYTES: the base quota in bytes
MAX_DATA_SIZE_BYTES == 1
\* env SUBSCRIBER_MAX_DATA_SIZE_BYTES: the subscriber quota in bytes
SUBSCRIBER_MAX_DATA_SIZE_BYTES == 3
\* env DB_MAX_ALLOWED_PACKET: the hard per-field ceiling in bytes
DB_MAX_ALLOWED_PACKET == 1

\* the token cache TTL of ValidateArgonToken, in minutes
ttl == 5
\* the retention window of runCleanup, in days
RetentionDays == 100
MinutesPerDay == 24 * 60

Procs == {1, 2}
Accounts == {"u1"}
Tokens == {"t1", "t2"}
\* request payloads; "" is a payload that was not supplied
Payloads == {"", "a", "b", "cc"}
\* clock advances, in minutes: around the TTL, and around the retention window
MinuteSteps == {ttl, ttl + 1}
DaySteps == {RetentionDays * MinutesPerDay, (RetentionDays + 1) * MinutesPerDay}

\* SQL NULL, and the value of a local that has not been assigned
NULL == -1

VARIABLES
    accounts,   \* table accounts: account_id -> row or NoAccount
    saves,      \* table saves: account_id -> row or NoSave
    now,        \* wall clock, minutes
    ticks,      \* clock advances made so far
    argonBase,  \* env ARGON_BASE_URL is set
    h,          \* the handler goroutines: Procs -> request, locals, position
    settled,    \* history: account -> save text of the last undisturbed successful save
    deleted,    \* history: account -> a delete answered 200 and no save has since
    retry,      \* a call of execWithRetries: locals, position, the caller's context
    limiter,    \* the save rate limiter: lastSaveAt, lastSaveMu, the clock, its requests
    sweeper,    \* the cleanup routine: its two goroutines, its clock, the rows it reported
    codec       \* a payload on its way through compressData and a decompressor

vars == <<accounts, saves, now, ticks, argonBase, h, settled, deleted, codec, retry, limiter, sweeper>>

AccountRow(tok, tv, sub) ==
    [exists |-> TRUE, argon_token |-> tok, token_validated_at |-> tv, subscriber |-> sub]

SaveRow(s, l, t) ==
    [exists |-> TRUE, save_data |-> s, level_data |-> l, created_at |-> t]

\* sql.ErrNoRows: what a SELECT by account_id finds when there is no row
NoAccount == [exists |-> FALSE, argon_token |-> "", token_validated_at |-> NULL, subscriber |-> FALSE]
NoSave == [exists |-> FALSE, save_data |-> "", level_data |-> "", created_at |-> NULL]

NoVal == "-"

(***************************************************************************)
(* A handler goroutine: the request (op, acct, token, saveData, levelData),*)
(* its position pc, the local isSubscriber, and the response (status, body,*)
(* limit, required).  called, missed and alone are bookkeeping for the     *)
(* claims: the Argon endpoint was requested, an UPDATE of the request      *)
(* matched no row, no other writer of the account overlapped the request,  *)
(* and for a Save of SpecSave the saves row of the account as the call     *)
(* found it.                                                               *)
(***************************************************************************)
\* the diagnostics of /check, before they are computed
NoDiag == [saveData |-> NULL, levelData |-> NULL, totalSize |-> NULL,
           maxDataSize |-> NULL, freeSpace |-> NULL, freeSpacePercentage |-> <<NULL, 1>>]

Idle ==
    [op |-> "idle", pc |-> "idle", acct |-> "", token |-> "", saveData |-> "", levelData |-> "",
     isSubscriber |-> FALSE, called |-> FALSE, missed |-> FALSE, alone |-> TRUE,
     status |-> "", body |-> "", limit |-> NULL, required |-> NULL, diag |-> NoDiag,
     before |-> NoSave]

\* the text "": an empty payload, an empty column
Empty == <<"lit", 0, FALSE, 0>>

\* no payload is on its way through compressData and the decompressors
NoCodec == [pc |-> "none", data |-> Empty, stored |-> Empty, loaded |-> Empty]

\* the tables, the clock and the goroutines when the server has started
InitStore ==
    /\ accounts = [a \in Accounts |-> NoAccount]
    /\ saves = [a \in Accounts |-> NoSave]
    /\ now = 0
    /\ ticks = 0
    /\ argonBase \in BOOLEAN
    /\ h = [p \in Procs |-> Idle]
    /\ settled = [a \in Accounts |-> NoVal]
    /\ deleted = [a \in Accounts |-> FALSE]

\* a nil error
NilErr == [badConn |-> FALSE, phrases |-> {}, nil |-> TRUE]

\* no call of execWithRetries is under way
NoRetry ==
    [pc |-> "none", attempt |-> 0, backoff |-> 0, err |-> NilErr, ctxDone |-> FALSE,
     timer |-> 0, woken |-> "none", calls |-> 0, lastErr |-> NilErr, via |-> "",
     waits |-> <<>>, ret |-> <<"nil", NilErr>>]

\* a goroutine of the rate limited save handler that serves no request
NoRequest ==
    [pc |-> "idle", acct |-> "", cred |-> "", now |-> NULL, last |-> NULL, ok |-> FALSE,
     status |-> ""]

\* the rate limiter before any request: lastSaveAt is empty, lastSaveMu is free
NoLimiter ==
    [minInterval |-> 0, clock |-> 0, mu |-> 0,
     lastSaveAt |-> [a \in {} |-> NULL], g |-> [p \in Procs |-> NoRequest],
     granted |-> [a \in {} |-> {}], failed |-> [a \in {} |-> NULL],
     verified |-> [a \in {} |-> NULL]]

\* the cleanup routine before the process has started it
NoSweeper ==
    [rows |-> NULL, t |-> 0, first |-> "none", firstBegan |-> NULL,
     ticker |-> "none", tickerBegan |-> NULL, pending |-> FALSE, nextTick |-> NULL]

Init == InitStore /\ codec = NoCodec /\ sweeper = NoSweeper /\ limiter = NoLimiter /\ retry = NoRetry

(***************************************************************************)
(* Results of the handlers, named as in the interface of the core.         *)
(* 200 is OK, 403 Unauthorized, 404 NotFound, 500 InternalError; 413 is    *)
(* QuotaExceeded ("Storage limit exceeded") or PayloadTooLarge ("... size  *)
(* exceeded max allowed packet").                                          *)
(***************************************************************************)
Respond(r, status) == [r EXCEPT !.pc = "done", !.status = status]

RespondText(r, text) == [r EXCEPT !.pc = "done", !.status = "OK", !.body = text]

RespondLimit(r, status, lim, req) ==
    [r EXCEPT !.pc = "done", !.status = status, !.limit = lim, !.required = req]

Running(p) == h[p].pc \notin {"idle", "done"}

\* a mutant of ValidateReturn: the handler tests ok before the error
ValidateReturn_okFirst(r, ok, verr) ==
    IF ~ok THEN Respond(r, "Unauthorized")
    ELSE IF verr THEN Respond(r, "InternalError")
    ELSE CASE r.op = "Validate" -> Respond(r, "OK")
           [] r.op = "Save" -> [r EXCEPT !.pc = "s_ensure"]
           [] r.op = "Load" -> [r EXCEPT !.pc = "l_select"]
           [] r.op = "LoadLevel" -> [r EXCEPT !.pc = "l_select"]
           [] OTHER -> Respond(r, "InternalError")

(***************************************************************************)
(* What each handler does with the (bool, error) ValidateArgonToken        *)
(* returns: an error is answered 500, false 403, and on true the handler   *)
(* goes on to its own statements.                                          *)
(***************************************************************************)
ValidateReturn(r, ok, verr) ==
    IF verr THEN Respond(r, "InternalError")
    ELSE IF ~ok THEN Respond(r, "Unauthorized")
    ELSE CASE r.op = "Validate" -> Respond(r, "OK")
           [] r.op = "Save" -> [r EXCEPT !.pc = "s_ensure"]
           [] r.op = "Load" -> [r EXCEPT !.pc = "l_select"]
           [] r.op = "LoadLevel" -> [r EXCEPT !.pc = "l_select"]
           [] OTHER -> Respond(r, "InternalError")

\* a mutant of WithinTTL: a token validated exactly ttl ago counts as stale
WithinTTL_strict(tv, t) == t - tv < ttl

\* time.Since(tv.Time) <= ttl
WithinTTL(tv, t) == t - tv <= ttl

\* a mutant of tokenMismatch: any presented token passes
tokenMismatch_never(storedToken, token) == FALSE

\* !storedToken.Valid || storedToken.String != token
tokenMismatch(storedToken, token) == storedToken # token

(***************************************************************************)
(* ValidateArgonToken, first statement: the SELECT of the account row and  *)
(* the decisions taken on what it returned.                                *)
(***************************************************************************)
ValidateLookup(p) ==
    /\ h[p].pc = "v_lookup"
    /\ LET row == accounts[h[p].acct]
           r == h[p]
       IN h' = [h EXCEPT ![p] =
                 IF ~row.exists THEN [r EXCEPT !.pc = "v_insert"]
                 ELSE IF tokenMismatch(row.argon_token, r.token) THEN ValidateReturn(r, FALSE, FALSE)
                 ELSE IF row.token_validated_at # NULL /\ WithinTTL(row.token_validated_at, now)
                      THEN ValidateReturn(r, TRUE, FALSE)
                 ELSE IF ~argonBase THEN ValidateReturn(r, TRUE, FALSE)
                 ELSE [r EXCEPT !.pc = "v_remote"]]
    /\ UNCHANGED <<accounts, saves, now, ticks, argonBase, codec, settled, deleted, retry, limiter, sweeper>>

(***************************************************************************)
(* ValidateArgonToken on sql.ErrNoRows: INSERT the account row with the    *)
(* presented token and report the token valid.  The INSERT fails on a      *)
(* duplicate key when the row has appeared since the SELECT, and may fail  *)
(* in the driver.                                                          *)
(***************************************************************************)
ValidateInsert(p) ==
    /\ h[p].pc = "v_insert"
    /\ \E cerr \in BOOLEAN :
         LET a == h[p].acct
             failed == cerr \/ accounts[a].exists
         IN /\ accounts' = IF failed THEN accounts
                           ELSE [accounts EXCEPT ![a] = AccountRow(h[p].token, NULL, FALSE)]
            /\ h' = [h EXCEPT ![p] = ValidateReturn(h[p], ~failed, failed)]
    /\ UNCHANGED <<saves, now, ticks, argonBase, codec, settled, deleted, retry, limiter, sweeper>>

\* how a request to the Argon endpoint ends
ArgonAnswers == {"valid", "invalid", "neterr", "http", "badjson"}

\* a mutant of ArgonResult: {valid: false} is reported as an error
ArgonResult_invalidIsError(r, ans) ==
    IF ans = "valid" THEN [r EXCEPT !.pc = "v_update"] ELSE ValidateReturn(r, FALSE, TRUE)

\* a mutant of ArgonResult: a failed request is reported as an invalid token
ArgonResult_errorIsInvalid(r, ans) ==
    IF ans = "valid" THEN [r EXCEPT !.pc = "v_update"] ELSE ValidateReturn(r, FALSE, FALSE)

\* what ValidateArgonToken makes of the end of the request: a transport
\* error, a status other than 200 and a body that does not parse are
\* errors; a parsed body is the answer
ArgonResult(r, ans) ==
    IF ans = "valid" THEN [r EXCEPT !.pc = "v_update"]
    ELSE IF ans = "invalid" THEN ValidateReturn(r, FALSE, FALSE)
    ELSE ValidateReturn(r, FALSE, TRUE)

(***************************************************************************)
(* ValidateArgonToken, the GET to {ARGON_BASE_URL}/v1/validation/check.    *)
(***************************************************************************)
ValidateRemoteAnswer(p, ans) ==
    /\ h[p].pc = "v_remote"
    /\ h' = [h EXCEPT ![p] = ArgonResult([h[p] EXCEPT !.called = TRUE], ans)]
    /\ UNCHANGED <<accounts, saves, now, ticks, argonBase, codec, settled, deleted, retry, limiter, sweeper>>

ValidateRemote(p) == \E ans \in ArgonAnswers : ValidateRemoteAnswer(p, ans)

(***************************************************************************)
(* ValidateArgonToken on {valid: true}: UPDATE token_validated_at; an      *)
(* error of the UPDATE is logged and the token is still reported valid.    *)
(***************************************************************************)
ValidateUpdate(p) ==
    /\ h[p].pc = "v_update"
    /\ \E err \in BOOLEAN :
         LET a == h[p].acct IN
         accounts' = IF err \/ ~accounts[a].exists THEN accounts
                     ELSE [accounts EXCEPT ![a].token_validated_at = now]
    /\ h' = [h EXCEPT ![p] = ValidateReturn(h[p], TRUE, FALSE)]
    /\ UNCHANGED <<saves, now, ticks, argonBase, codec, settled, deleted, retry, limiter, sweeper>>

ValidateArgonToken(p) ==
    \/ ValidateLookup(p)
    \/ ValidateInsert(p)
    \/ ValidateRemote(p)
    \/ ValidateUpdate(p)

(***************************************************************************)
(* authHandler: POST /auth {accountId, argonToken}.                        *)
(***************************************************************************)
authHandler(p) ==
    /\ h[p].pc = "idle"
    /\ \E a \in Accounts, t \in Tokens :
         h' = [h EXCEPT ![p] = [Idle EXCEPT !.op = "Validate", !.pc = "v_lookup",
                                            !.acct = a, !.token = t]]
    /\ UNCHANGED <<accounts, saves, now, ticks, argonBase, codec, settled, deleted, retry, limiter, sweeper>>

\* the response has been written and the goroutine ends
Return(p) ==
    /\ h[p].pc = "done"
    /\ h' = [h EXCEPT ![p] = Idle]
    /\ UNCHANGED <<accounts, saves, now, ticks, argonBase, codec, settled, deleted, retry, limiter, sweeper>>

(***************************************************************************)
(* Bookkeeping for the claims, not program state: a handler that writes    *)
(* the saves row of an account (save, delete) runs `alone` when no other   *)
(* such handler or cleanup of that account overlaps it.                    *)
(***************************************************************************)
Writer(r, a) == r.pc \notin {"idle", "done"} /\ r.acct = a /\ r.op \in {"Save", "Delete"}

\* a writer for account a starts in goroutine p: the writers it overlaps are disturbed
StartWriter(p, r) ==
    [q \in Procs |->
       IF q = p THEN [r EXCEPT !.alone = ~\E o \in Procs \ {p} : Writer(h[o], r.acct)]
       ELSE IF Writer(h[q], r.acct) THEN [h[q] EXCEPT !.alone = FALSE]
       ELSE h[q]]

(***************************************************************************)
(* saveHandler: POST /save {accountId, saveData, levelData, argonToken}.   *)
(* A request with no account, no token or neither payload is answered 400  *)
(* before the store is touched.                                            *)
(***************************************************************************)
\* the request arrives; with track, the saves row it finds is kept in before
saveRequest(p, toks, pays, track) ==
    /\ h[p].pc = "idle"
    /\ \E a \in Accounts, t \in toks, sd \in pays, ld \in pays :
         /\ ~(sd = "" /\ ld = "")
         /\ h' = StartWriter(p, [Idle EXCEPT !.op = "Save", !.pc = "s_account", !.acct = a,
                                             !.token = t, !.saveData = sd, !.levelData = ld,
                                             !.before = IF track THEN saves[a] ELSE NoSave])
         /\ settled' = [settled EXCEPT ![a] = NoVal]
    /\ UNCHANGED <<accounts, saves, now, ticks, argonBase, codec, deleted, retry, limiter, sweeper>>

saveHandler(p, toks, pays) == saveRequest(p, toks, pays, FALSE)

\* saveHandler: SELECT argon_token, subscriber FROM accounts
SaveAccount(p) ==
    /\ h[p].pc = "s_account"
    /\ LET row == accounts[h[p].acct] IN
       h' = [h EXCEPT ![p] =
              IF row.exists THEN [h[p] EXCEPT !.isSubscriber = row.subscriber, !.pc = "v_lookup"]
              ELSE [h[p] EXCEPT !.pc = "s_newacct"]]
    /\ UNCHANGED <<accounts, saves, now, ticks, argonBase, codec, settled, deleted, retry, limiter, sweeper>>

\* saveHandler on sql.ErrNoRows: INSERT INTO accounts with the presented token
SaveNewAccount(p) ==
    /\ h[p].pc = "s_newacct"
    /\ \E err \in BOOLEAN :
         LET a == h[p].acct
             failed == err \/ accounts[a].exists
         IN /\ accounts' = IF failed THEN accounts
                           ELSE [accounts EXCEPT ![a] = AccountRow(h[p].token, NULL, FALSE)]
            /\ h' = [h EXCEPT ![p] = IF failed THEN Respond(h[p], "InternalError")
                                     ELSE [h[p] EXCEPT !.pc = "v_lookup"]]
    /\ UNCHANGED <<saves, now, ticks, argonBase, codec, settled, deleted, retry, limiter, sweeper>>

\* a mutant of maxDataSize: the subscriber flag is not looked at
maxDataSize_base(isSubscriber) == MAX_DATA_SIZE_BYTES

\* the quota of the request: the subscriber quota when the account row read says so
maxDataSize(isSubscriber) ==
    IF isSubscriber THEN SUBSCRIBER_MAX_DATA_SIZE_BYTES ELSE MAX_DATA_SIZE_BYTES

\* saveHandler: INSERT IGNORE INTO saves (account_id, save_data, level_data) VALUES (?, '', '')
SaveEnsure(p) ==
    /\ h[p].pc = "s_ensure"
    /\ \E err \in BOOLEAN :
         LET a == h[p].acct IN
         /\ saves' = IF err \/ saves[a].exists THEN saves
                     ELSE [saves EXCEPT ![a] = SaveRow("", "", now)]
         /\ h' = [h EXCEPT ![p] = IF err THEN Respond(h[p], "InternalError")
                                  ELSE [h[p] EXCEPT !.pc = "s_sizes"]]
    /\ UNCHANGED <<accounts, now, ticks, argonBase, codec, settled, deleted, retry, limiter, sweeper>>

\* the size a column will have: that of the payload supplied, else the stored one
newSize(data, curBytes) == IF data # "" THEN Len(data) ELSE curBytes

totalProposed(r, curSaveBytes, curLevelBytes) ==
    newSize(r.saveData, curSaveBytes) + newSize(r.levelData, curLevelBytes)

\* a mutant of OverQuota: a total equal to the limit is refused
OverQuota_atLimit(total, lim) == total >= lim

\* totalProposed > int64(maxDataSize)
OverQuota(total, lim) == total > lim

\* len(data) > maxAllowedPacket
OverPacket(data) == Len(data) > DB_MAX_ALLOWED_PACKET

\* what saveHandler does next once the save column is dealt with
SaveThenLevel(r) ==
    IF r.levelData = "" THEN Respond(r, "OK")
    ELSE IF OverPacket(r.levelData)
         THEN RespondLimit(r, "PayloadTooLarge", DB_MAX_ALLOWED_PACKET, Len(r.levelData))
    ELSE [r EXCEPT !.pc = "s_uplevel"]

\* what saveHandler does once the quota check has passed
SaveThenSave(r) ==
    IF r.saveData = "" THEN SaveThenLevel(r)
    ELSE IF OverPacket(r.saveData)
         THEN RespondLimit(r, "PayloadTooLarge", DB_MAX_ALLOWED_PACKET, Len(r.saveData))
    ELSE [r EXCEPT !.pc = "s_upsave"]

\* the history of deletes once the save r has taken a step: its 200 ends the wait
Saved(r) ==
    IF r.pc = "done" /\ r.status = "OK" THEN [deleted EXCEPT ![r.acct] = FALSE] ELSE deleted

\* saveHandler: SELECT LENGTH(save_data), LENGTH(level_data) and the storage limit check
SaveSizes(p) ==
    /\ h[p].pc = "s_sizes"
    /\ LET row == saves[h[p].acct]
           r == h[p]
           lim == maxDataSize(r.isSubscriber)
           total == totalProposed(r, Len(row.save_data), Len(row.level_data))
       IN h' = [h EXCEPT ![p] =
                 IF ~row.exists THEN Respond(r, "InternalError")
                 ELSE IF OverQuota(total, lim) THEN RespondLimit(r, "QuotaExceeded", lim, total)
                 ELSE SaveThenSave(r)]
    /\ deleted' = Saved(h'[p])
    /\ UNCHANGED <<accounts, saves, now, ticks, argonBase, codec, settled, retry, limiter, sweeper>>

\* the save text a save that ends here has settled, if it ran alone
Settle(r) ==
    IF r.pc = "done" /\ r.status = "OK" /\ r.alone /\ r.saveData # ""
    THEN [settled EXCEPT ![r.acct] = r.saveData]
    ELSE settled

\* a mutant of UpdateSaveData: the statement names the other column
UpdateSaveData_wrongColumn(row, data, t) == [row EXCEPT !.level_data = data, !.created_at = t]

\* UPDATE saves SET save_data = ?, created_at = CURRENT_TIMESTAMP WHERE account_id = ?
UpdateSaveData(row, data, t) == [row EXCEPT !.save_data = data, !.created_at = t]

\* a mutant of UpdateLevelData: the statement replaces the whole row
UpdateLevelData_wholeRow(row, data, t) ==
    [row EXCEPT !.level_data = data, !.save_data = "", !.created_at = t]

\* UPDATE saves SET level_data = ?, created_at = CURRENT_TIMESTAMP WHERE account_id = ?
UpdateLevelData(row, data, t) == [row EXCEPT !.level_data = data, !.created_at = t]

\* saveHandler: the UPDATE of save_data, through execWithRetries
SaveUpdateSave(p) ==
    /\ h[p].pc = "s_upsave"
    /\ \E err \in BOOLEAN :
         LET a == h[p].acct
             hit == ~err /\ saves[a].exists
             r == IF err THEN Respond(h[p], "InternalError")
                  ELSE SaveThenLevel([h[p] EXCEPT !.missed = ~hit])
         IN /\ saves' = IF hit THEN [saves EXCEPT ![a] = UpdateSaveData(saves[a], h[p].saveData, now)]
                        ELSE saves
            /\ h' = [h EXCEPT ![p] = r]
            /\ settled' = Settle(r)
            /\ deleted' = Saved(r)
    /\ UNCHANGED <<accounts, now, ticks, argonBase, codec, retry, limiter, sweeper>>

\* saveHandler: the UPDATE of level_data, through execWithRetries
SaveUpdateLevel(p) ==
    /\ h[p].pc = "s_uplevel"
    /\ \E err \in BOOLEAN :
         LET a == h[p].acct
             hit == ~err /\ saves[a].exists
             r == IF err THEN Respond(h[p], "InternalError")
                  ELSE Respond([h[p] EXCEPT !.missed = h[p].missed \/ ~hit], "OK")
         IN /\ saves' = IF hit THEN [saves EXCEPT ![a] = UpdateLevelData(saves[a], h[p].levelData, now)]
                        ELSE saves
            /\ h' = [h EXCEPT ![p] = r]
            /\ settled' = Settle(r)
            /\ deleted' = Saved(r)
    /\ UNCHANGED <<accounts, now, ticks, argonBase, codec, retry, limiter, sweeper>>

SaveSteps(p) ==
    \/ SaveAccount(p)
    \/ SaveNewAccount(p)
    \/ SaveEnsure(p)
    \/ SaveSizes(p)
    \/ SaveUpdateSave(p)
    \/ SaveUpdateLevel(p)

(***************************************************************************)
(* loadHandler: POST /load, and loadLevelHandler: POST /loadlevel.         *)
(***************************************************************************)
loadHandler(p, toks) ==
    /\ h[p].pc = "idle"
    /\ \E a \in Accounts, t \in toks :
         h' = [h EXCEPT ![p] = [Idle EXCEPT !.op = "Load", !.pc = "v_lookup",
                                            !.acct = a, !.token = t]]
    /\ UNCHANGED <<accounts, saves, now, ticks, argonBase, codec, settled, deleted, retry, limiter, sweeper>>

loadLevelHandler(p, toks) ==
    /\ h[p].pc = "idle"
    /\ \E a \in Accounts, t \in toks :
         h' = [h EXCEPT ![p] = [Idle EXCEPT !.op = "LoadLevel", !.pc = "v_lookup",
                                            !.acct = a, !.token = t]]
    /\ UNCHANGED <<accounts, saves, now, ticks, argonBase, codec, settled, deleted, retry, limiter, sweeper>>

\* the column each of the two handlers selects
Selected(op, row) == IF op = "Load" THEN row.save_data ELSE row.level_data

\* SELECT save_data (level_data) FROM saves WHERE account_id = ?
LoadSelect(p) ==
    /\ h[p].pc = "l_select"
    /\ LET row == saves[h[p].acct]
           r == h[p]
       IN h' = [h EXCEPT ![p] = IF ~row.exists THEN Respond(r, "NotFound")
                                ELSE RespondText(r, Selected(r.op, row))]
    /\ UNCHANGED <<accounts, saves, now, ticks, argonBase, codec, settled, deleted, retry, limiter, sweeper>>

(***************************************************************************)
(* deleteHandler: POST /delete.  It compares the presented token with the  *)
(* stored one itself and does not call ValidateArgonToken.                 *)
(***************************************************************************)
deleteHandler(p, toks) ==
    /\ h[p].pc = "idle"
    /\ \E a \in Accounts, t \in toks :
         /\ h' = StartWriter(p, [Idle EXCEPT !.op = "Delete", !.pc = "d_account",
                                             !.acct = a, !.token = t])
         /\ settled' = [settled EXCEPT ![a] = NoVal]
    /\ UNCHANGED <<accounts, saves, now, ticks, argonBase, codec, deleted, retry, limiter, sweeper>>

\* deleteHandler: SELECT argon_token FROM accounts
DeleteAccount(p) ==
    /\ h[p].pc = "d_account"
    /\ LET row == accounts[h[p].acct]
           r == h[p]
       IN h' = [h EXCEPT ![p] =
                 IF ~row.exists \/ row.argon_token # r.token THEN Respond(r, "Unauthorized")
                 ELSE [r EXCEPT !.pc = "d_delete"]]
    /\ UNCHANGED <<accounts, saves, now, ticks, argonBase, codec, settled, deleted, retry, limiter, sweeper>>

\* a mutant of DeleteFrom: the statement has no WHERE clause
DeleteFrom_everyRow(tbl, a) == [b \in DOMAIN tbl |-> NoSave]

\* DELETE FROM saves WHERE account_id = ?
DeleteFrom(tbl, a) == [tbl EXCEPT ![a] = NoSave]

\* deleteHandler: the DELETE and the answer
DeleteSaves(p) ==
    /\ h[p].pc = "d_delete"
    /\ \E err \in BOOLEAN :
         /\ saves' = IF err THEN saves ELSE DeleteFrom(saves, h[p].acct)
         /\ h' = [h EXCEPT ![p] = Respond(h[p], IF err THEN "InternalError" ELSE "OK")]
         /\ deleted' = IF err THEN deleted ELSE [deleted EXCEPT ![h[p].acct] = TRUE]
    /\ UNCHANGED <<accounts, now, ticks, argonBase, codec, settled, retry, limiter, sweeper>>

(***************************************************************************)
(* checkHandler: POST /check, the diagnostics of an account.  Like         *)
(* deleteHandler it compares the presented token with the stored one       *)
(* itself and does not call ValidateArgonToken.                            *)
(***************************************************************************)
checkHandler(p, toks) ==
    /\ h[p].pc = "idle"
    /\ \E a \in Accounts, t \in toks :
         h' = [h EXCEPT ![p] = [Idle EXCEPT !.op = "Inspect", !.pc = "c_account",
                                            !.acct = a, !.token = t]]
    /\ UNCHANGED <<accounts, saves, now, ticks, argonBase, codec, settled, deleted, retry, limiter, sweeper>>

\* checkHandler: SELECT argon_token, subscriber FROM accounts
CheckAccount(p) ==
    /\ h[p].pc = "c_account"
    /\ LET row == accounts[h[p].acct]
           r == h[p]
       IN h' = [h EXCEPT ![p] =
                 IF ~row.exists \/ row.argon_token # r.token THEN Respond(r, "Unauthorized")
                 ELSE [r EXCEPT !.pc = "c_select", !.isSubscriber = row.subscriber]]
    /\ UNCHANGED <<accounts, saves, now, ticks, argonBase, codec, settled, deleted, retry, limiter, sweeper>>

\* a mutant of freeSpace: the difference is not clipped at 0
freeSpace_signed(lim, totalSize) == lim - totalSize

\* freeSpace := maxDataSize - totalSize; if freeSpace < 0 { freeSpace = 0 }
freeSpace(lim, totalSize) == IF lim - totalSize < 0 THEN 0 ELSE lim - totalSize

\* float64(freeSpace) / float64(maxDataSize) * 100, as the fraction
\* <<numerator, denominator>>
freeSpacePercentage(free, lim) == <<free * 100, lim>>

\* the sizes checkHandler reports for a row of saves, and for none: the
\* literal answer of the sql.ErrNoRows branch, which computes no freeSpace
Diagnostics(row, lim) ==
    IF ~row.exists
    THEN [saveData |-> 0, levelData |-> 0, totalSize |-> 0, maxDataSize |-> lim,
          freeSpace |-> NULL, freeSpacePercentage |-> <<100, 1>>]
    ELSE LET saveLen == Len(row.save_data)
             levelLen == Len(row.level_data)
             totalSize == saveLen + levelLen
         IN [saveData |-> saveLen, levelData |-> levelLen, totalSize |-> totalSize,
             maxDataSize |-> lim, freeSpace |-> freeSpace(lim, totalSize),
             freeSpacePercentage |-> freeSpacePercentage(freeSpace(lim, totalSize), lim)]

\* checkHandler: SELECT save_data, level_data, created_at FROM saves, answered 200
CheckSelect(p) ==
    /\ h[p].pc = "c_select"
    /\ \E err \in BOOLEAN :
         h' = [h EXCEPT ![p] =
                IF err THEN Respond(h[p], "InternalError")
                ELSE [Respond(h[p], "OK") EXCEPT
                        !.diag = Diagnostics(saves[h[p].acct], maxDataSize(h[p].isSubscriber))]]
    /\ UNCHANGED <<accounts, saves, now, ticks, argonBase, codec, settled, deleted, retry, limiter, sweeper>>

(***************************************************************************)
(* runCleanup: DELETE a, s FROM accounts a JOIN saves s ... WHERE          *)
(* s.created_at < DATE_SUB(NOW(), INTERVAL 100 DAY), one statement.        *)
(***************************************************************************)
\* a mutant of Inactive: a save of exactly 100 days is taken too
Inactive_atWindow(a) ==
    /\ accounts[a].exists
    /\ saves[a].exists
    /\ saves[a].created_at <= now - RetentionDays * MinutesPerDay

Inactive(a) ==
    /\ accounts[a].exists
    /\ saves[a].exists
    /\ saves[a].created_at < now - RetentionDays * MinutesPerDay

\* res.RowsAffected(): the accounts rows and the saves rows the statement deleted
RowsAffected == 2 * Cardinality({a \in DOMAIN accounts : Inactive(a)})

runCleanup ==
    /\ \E a \in DOMAIN accounts : Inactive(a)
    /\ accounts' = [a \in DOMAIN accounts |-> IF Inactive(a) THEN NoAccount ELSE accounts[a]]
    /\ saves' = [a \in DOMAIN saves |-> IF Inactive(a) THEN NoSave ELSE saves[a]]
    /\ settled' = [a \in Accounts |-> IF Inactive(a) THEN NoVal ELSE settled[a]]
    /\ h' = [p \in Procs |-> IF Writer(h[p], h[p].acct) /\ Inactive(h[p].acct)
                             THEN [h[p] EXCEPT !.alone = FALSE] ELSE h[p]]
    /\ sweeper' = [sweeper EXCEPT !.rows = RowsAffected]
    /\ UNCHANGED <<now, ticks, argonBase, codec, deleted, retry, limiter>>

\* membershipHandler, processMembership: UPDATE accounts SET subscriber = 1
SetSubscriber ==
    /\ \E a \in Accounts :
         /\ accounts[a].exists
         /\ ~accounts[a].subscriber
         /\ accounts' = [accounts EXCEPT ![a].subscriber = TRUE]
    /\ UNCHANGED <<saves, now, ticks, argonBase, codec, h, settled, deleted, retry, limiter, sweeper>>

(***************************************************************************)
(* Time passes.  A handler runs under a context deadline of 5 or 30        *)
(* seconds, so the clock, counted in minutes, advances between requests.   *)
(***************************************************************************)
Tick(steps) ==
    /\ ticks < MaxTicks
    /\ \A p \in Procs : h[p].pc = "idle"
    /\ \E d \in steps : now' = now + d
    /\ ticks' = ticks + 1
    /\ UNCHANGED <<accounts, saves, argonBase, codec, h, settled, deleted, retry, limiter, sweeper>>

(***************************************************************************)
(* Spec: one request at a time, every request the handlers accept, the     *)
(* cleanup routine and the membership update running beside it.            *)
(***************************************************************************)
Next ==
    \/ authHandler(1)
    \/ saveHandler(1, Tokens, Payloads)
    \/ SaveSteps(1)
    \/ loadHandler(1, Tokens)
    \/ loadLevelHandler(1, Tokens)
    \/ LoadSelect(1)
    \/ deleteHandler(1, Tokens)
    \/ DeleteAccount(1)
    \/ DeleteSaves(1)
    \/ checkHandler(1, Tokens)
    \/ CheckAccount(1)
    \/ CheckSelect(1)
    \/ ValidateArgonToken(1)
    \/ Return(1)
    \/ runCleanup
    \/ SetSubscriber
    \/ Tick(DaySteps)

\* the deployment of the README: ARGON_BASE_URL is set
InitArgon == Init /\ argonBase = TRUE

Spec == InitArgon /\ [][Next]_vars

(***************************************************************************)
(* SpecRace: requests of one client (its token, the payloads RacePayloads) *)
(* handled concurrently by the goroutines Procs.                           *)
(***************************************************************************)
RaceTokens == {"t1"}
RacePayloads == {"", "a"}

NextRace ==
    \/ \E p \in Procs : saveHandler(p, RaceTokens, RacePayloads)
    \/ \E p \in Procs : SaveSteps(p)
    \/ \E p \in Procs : loadHandler(p, RaceTokens)
    \/ \E p \in Procs : LoadSelect(p)
    \/ \E p \in Procs : deleteHandler(p, RaceTokens)
    \/ \E p \in Procs : DeleteAccount(p)
    \/ \E p \in Procs : DeleteSaves(p)
    \/ \E p \in Procs : ValidateArgonToken(p)
    \/ \E p \in Procs : Return(p)
    \/ runCleanup
    \/ SetSubscriber
    \/ Tick(DaySteps)

SpecRace == InitArgon /\ [][NextRace]_vars

(***************************************************************************)
(* SpecAuth: concurrent POST /auth requests, with or without an Argon      *)
(* endpoint configured, the clock advancing around the TTL.                *)
(***************************************************************************)
NextAuth ==
    \/ \E p \in Procs : authHandler(p)
    \/ \E p \in Procs : ValidateArgonToken(p)
    \/ \E p \in Procs : Return(p)
    \/ Tick(MinuteSteps)

SpecAuth == Init /\ [][NextAuth]_vars

(***************************************************************************)
(* SpecDelete: concurrent POST /delete requests of the accounts in         *)
(* Accounts against tables that also hold the rows of a bystander, left    *)
(* there by earlier requests.                                              *)
(***************************************************************************)
Bystander == "u2"
Rows == Accounts \cup {Bystander}

\* the rows earlier /auth and /save requests at time 0 can have left
OldAccounts == {NoAccount} \cup {AccountRow(t, 0, sub) : t \in Tokens, sub \in BOOLEAN}
OldSaves == {NoSave} \cup {SaveRow(sd, ld, 0) : sd \in {"", "a"}, ld \in {"", "a"}}

InitDelete ==
    /\ accounts \in [Rows -> OldAccounts]
    /\ saves \in [Rows -> OldSaves]
    /\ \A a \in Rows : saves[a].exists => accounts[a].exists
    /\ now = 0
    /\ ticks = 0
    /\ argonBase = TRUE
    /\ h = [p \in Procs |-> Idle]
    /\ settled = [a \in Accounts |-> NoVal]
    /\ deleted = [a \in Accounts |-> FALSE]
    /\ codec = NoCodec
    /\ sweeper = NoSweeper
    /\ limiter = NoLimiter
    /\ retry = NoRetry

NextDelete ==
    \/ \E p \in Procs : deleteHandler(p, Tokens)
    \/ \E p \in Procs : DeleteAccount(p)
    \/ \E p \in Procs : DeleteSaves(p)
    \/ \E p \in Procs : Return(p)

SpecDelete == InitDelete /\ [][NextDelete]_vars

(***************************************************************************)
(* SpecSave: the /auth and /save requests of one client after another, on  *)
(* a server that serves nothing else; each Save keeps the saves row it     *)
(* found.                                                                  *)
(***************************************************************************)
NextSave ==
    \/ authHandler(1)
    \/ saveRequest(1, Tokens, Payloads, TRUE)
    \/ SaveSteps(1)
    \/ ValidateArgonToken(1)
    \/ Return(1)
    \/ SetSubscriber
    \/ Tick(MinuteSteps)

SpecSave == InitArgon /\ [][NextSave]_vars

(***************************************************************************)
(* SpecInspect: two goroutines in checkHandler against tables left by      *)
(* earlier requests: no row, empty blobs, blobs below, at and above the    *)
(* quota of the account (a Save can leave more than the quota, and the     *)
(* subscriber flag is read anew by every request).                         *)
(***************************************************************************)
InspectSaves == {NoSave} \cup {SaveRow(sd, ld, 0) : sd \in {"", "a", "cc"}, ld \in {"", "a", "cc"}}

InitInspect ==
    /\ accounts \in [Accounts -> OldAccounts]
    /\ saves \in [Accounts -> InspectSaves]
    /\ \A a \in Accounts : saves[a].exists => accounts[a].exists
    /\ now = 0
    /\ ticks = 0
    /\ argonBase = TRUE
    /\ h = [p \in Procs |-> Idle]
    /\ settled = [a \in Accounts |-> NoVal]
    /\ deleted = [a \in Accounts |-> FALSE]
    /\ codec = NoCodec
    /\ sweeper = NoSweeper
    /\ limiter = NoLimiter
    /\ retry = NoRetry

NextInspect ==
    \/ \E p \in Procs : checkHandler(p, Tokens)
    \/ \E p \in Procs : CheckAccount(p)
    \/ \E p \in Procs : CheckSelect(p)
    \/ \E p \in Procs : Return(p)

SpecInspect == InitInspect /\ [][NextInspect]_vars

(***************************************************************************)
(* SpecSweep: runs of runCleanup on tables that hold, for two accounts,    *)
(* saves written 99, 100 and 101 days ago.                                 *)
(***************************************************************************)
\* created_at of the saves, in days after the oldest
SaveDays == {0, 1, 2}

AgedSaves == {NoSave} \cup {SaveRow("a", "", d * MinutesPerDay) : d \in SaveDays}

InitSweep ==
    /\ accounts \in [Rows -> OldAccounts]
    /\ saves \in [Rows -> AgedSaves]
    /\ \A a \in Rows : saves[a].exists => accounts[a].exists
    /\ now = (RetentionDays + 1) * MinutesPerDay
    /\ ticks = 0
    /\ argonBase = TRUE
    /\ h = [p \in Procs |-> Idle]
    /\ settled = [a \in Accounts |-> NoVal]
    /\ deleted = [a \in Accounts |-> FALSE]
    /\ codec = NoCodec
    /\ limiter = NoLimiter
    /\ retry = NoRetry
    /\ sweeper = NoSweeper

NextSweep == runCleanup

SpecSweep == InitSweep /\ [][NextSweep]_vars

(***************************************************************************)
(* The payload codec.  A text is a term: <<"lit", len, angle, gz>> is a    *)
(* text of len bytes that is not valid base64, angle telling whether it    *)
(* contains '<' or '>' and gz the size of its gzip stream; <<"b64", t>> is *)
(* base64.StdEncoding.EncodeToString of the bytes t; <<"gz", t>> is the    *)
(* gzip stream of t; <<"tag", prefix, t>> is prefix + t.                   *)
(***************************************************************************)
B64(t) == <<"b64", t>>
Gz(t) == <<"gz", t>>
Tag(prefix, t) == <<"tag", prefix, t>>

\* a text of n bytes; gzip takes it to a tenth and a header, or cannot shrink it
Text(n, angle, packs) == <<"lit", n, angle, IF packs THEN n \div 10 + 20 ELSE n + 23>>

TextLens == {60, 75, 76, 1000}
Texts == {Text(n, angle, packs) : n \in TextLens, angle \in BOOLEAN, packs \in BOOLEAN}

\* payloads around the 10% mark: a text of 60 bytes whose tagged form has 51
\* and 55 bytes, base64 of 140 bytes whose tagged form has 122 and 126 bytes
EdgeInputs ==
    {<<"lit", 60, FALSE, 36>>, <<"lit", 60, FALSE, 38>>,
     B64(<<"lit", 105, FALSE, 87>>), B64(<<"lit", 105, FALSE, 90>>)}

\* the payloads a client sends: texts, base64 of texts, base64 of gzip streams
CodecInputs ==
    {Empty} \cup Texts \cup {B64(t) : t \in Texts} \cup {B64(Gz(t)) : t \in Texts}
    \cup EdgeInputs

RECURSIVE Length(_)
\* len(s); a gzip stream of bytes that are themselves encoded or compressed
\* is taken not to shrink: the stream and its header and trailer
Length(t) ==
    CASE t[1] = "lit" -> t[2]
      [] t[1] = "b64" -> 4 * ((Length(t[2]) + 2) \div 3)
      [] t[1] = "gz"  -> IF t[2][1] = "lit" THEN t[2][4] ELSE Length(t[2]) + 23
      [] t[1] = "tag" -> Len(t[2]) + Length(t[3])

RECURSIVE HasAngle(_)
\* strings.Contains(data, "<") || strings.Contains(data, ">")
HasAngle(t) ==
    CASE t[1] = "lit" -> t[3]
      [] t[1] = "b64" -> FALSE
      [] t[1] = "tag" -> HasAngle(t[3])

\* base64.StdEncoding.DecodeString: <<err == nil, decoded>>; the ':' of a
\* prefix is not in the alphabet
DecodeString(t) ==
    IF t[1] = "b64" THEN <<TRUE, t[2]>> ELSE <<FALSE, Empty>>

\* gzip.NewReader and io.Copy: <<err == nil, content>>
NewReader(t) ==
    IF t[1] = "gz" THEN <<TRUE, t[2]>> ELSE <<FALSE, Empty>>

\* a mutant of NinetyPercent: any saving is enough
NinetyPercent_whole(originalSize) == originalSize

\* int(float64(originalSize) * 0.90)
NinetyPercent(originalSize) == (9 * originalSize) \div 10

compressData(data) ==
    IF data = Empty THEN Empty
    ELSE LET tryBase64 == ~HasAngle(data) /\ Length(data) > 100
             wasBase64 == tryBase64 /\ DecodeString(data)[1]
             dataToCompress == IF wasBase64 THEN DecodeString(data)[2] ELSE data
             prefix == IF wasBase64 THEN "B64GZ:" ELSE "GZ:"
             compressed == Tag(prefix, B64(Gz(dataToCompress)))
         IN IF Length(compressed) >= NinetyPercent(Length(data)) THEN data ELSE compressed

decompressSaveData(data) ==
    IF data = Empty THEN Empty
    ELSE IF HasAngle(data) THEN data
    ELSE IF ~DecodeString(data)[1] THEN data
    ELSE IF ~NewReader(DecodeString(data)[2])[1] THEN data
    ELSE NewReader(DecodeString(data)[2])[2]

decompressLevelData(data) ==
    IF data = Empty THEN Empty
    ELSE IF HasAngle(data) THEN data
    ELSE IF ~DecodeString(data)[1] THEN data
    ELSE IF ~NewReader(DecodeString(data)[2])[1] THEN data
    ELSE NewReader(DecodeString(data)[2])[2]

\* the save handler compresses the payload of the request for the column
saveCompress ==
    /\ codec.pc = "request"
    /\ codec' = [codec EXCEPT !.pc = "stored", !.stored = compressData(codec.data)]
    /\ UNCHANGED <<accounts, saves, now, ticks, argonBase, h, settled, deleted, retry, limiter, sweeper>>

\* the load handler answers with the decompressed save_data column
loadDecompress ==
    /\ codec.pc = "stored"
    /\ codec' = [codec EXCEPT !.pc = "loaded", !.loaded = decompressSaveData(codec.stored)]
    /\ UNCHANGED <<accounts, saves, now, ticks, argonBase, h, settled, deleted, retry, limiter, sweeper>>

\* the loadlevel handler answers with the decompressed level_data column
loadLevelDecompress ==
    /\ codec.pc = "stored"
    /\ codec' = [codec EXCEPT !.pc = "loadedLevel",
                              !.loaded = decompressLevelData(codec.stored)]
    /\ UNCHANGED <<accounts, saves, now, ticks, argonBase, h, settled, deleted, retry, limiter, sweeper>>

(***************************************************************************)
(* SpecCodec: every payload of CodecInputs compressed as the save handler  *)
(* does and decompressed as the load handlers do.                          *)
(***************************************************************************)
InitCodec ==
    /\ InitStore
    /\ argonBase = TRUE
    /\ codec \in {[NoCodec EXCEPT !.pc = "request", !.data = x] : x \in CodecInputs}
    /\ sweeper = NoSweeper
    /\ limiter = NoLimiter
    /\ retry = NoRetry

NextCodec ==
    \/ saveCompress
    \/ loadDecompress
    \/ loadLevelDecompress

SpecCodec == InitCodec /\ [][NextCodec]_vars

(***************************************************************************)
(* execWithRetries.  An error is what isTransient looks at: whether it is  *)
(* driver.ErrBadConn and which of the phrases its lower-cased message      *)
(* contains.  retry holds the locals attempt, backoff and err, the         *)
(* position pc ("exec" before db.ExecContext, "select" in the select       *)
(* statement), whether the caller's context is done, the case that has     *)
(* woken the select, the duration of its timer in milliseconds, and the    *)
(* returned pair ret.  calls, lastErr, via and waits are bookkeeping: the  *)
(* calls of db.ExecContext made, the error of the latest one, the return   *)
(* statement taken, the durations of the timers that have fired.           *)
(***************************************************************************)
Err(bad, phrases) == [badConn |-> bad, phrases |-> phrases, nil |-> FALSE]

\* the phrases isTransient searches the message for
TransientPhrases ==
    {"connection reset by peer", "broken pipe", "i/o timeout", "connection refused",
     "tls: handshake timeout", "use of closed network connection"}

\* errors of db.ExecContext that a later attempt can overcome
TransientErrors ==
    {Err(TRUE, {})} \cup {Err(FALSE, {ph}) : ph \in TransientPhrases}
    \cup {Err(FALSE, {"read tcp", "i/o timeout"})}

\* errors of db.ExecContext that no later attempt overcomes
PermanentErrors == {Err(FALSE, {"duplicate entry"}), Err(FALSE, {"packet too large"})}

\* ctx.Err(): context.Canceled or context.DeadlineExceeded
CtxErr == Err(FALSE, {"context deadline exceeded"})

DbErrors == TransientErrors \cup PermanentErrors \cup {CtxErr}

\* a mutant of isTransient: every error is worth another attempt
isTransient_any(err) == ~err.nil

isTransient(err) ==
    IF err.nil THEN FALSE
    ELSE IF err.badConn THEN TRUE
    ELSE err.phrases \cap TransientPhrases # {}

\* a mutant of selected: the timer case is taken whatever woke the select
selected_timer(r) == [r EXCEPT !.pc = "exec", !.backoff = 2 * r.backoff,
                               !.attempt = r.attempt + 1, !.woken = "none"]

\* a mutant of doubled: the backoff stays as it is
doubled_not(backoff) == backoff

\* backoff *= 2
doubled(backoff) == 2 * backoff

\* the case of the select that runs: time.After(backoff) or ctx.Done()
selected(r) ==
    IF r.woken = "timer"
    THEN [r EXCEPT !.pc = "exec", !.backoff = doubled(r.backoff),
                   !.attempt = r.attempt + 1, !.woken = "none"]
    ELSE [r EXCEPT !.pc = "done", !.via = "ctx", !.ret = <<"nil", CtxErr>>]

\* a mutant of broken: the error is dropped on the way out
broken_masked(r) == [r EXCEPT !.pc = "done", !.via = "break", !.ret = <<"nil", NilErr>>]

\* break; return res, err
broken(r) == [r EXCEPT !.pc = "done", !.via = "break", !.ret = <<"nil", r.err>>]

\* res, err = db.ExecContext(ctx, query, args...) and what the loop body does with err
ExecContext ==
    /\ retry.pc = "exec"
    /\ retry.attempt <= 3
    /\ \E out \in {NilErr} \cup DbErrors :
         LET r == [retry EXCEPT !.err = out, !.calls = retry.calls + 1, !.lastErr = out]
         IN retry' = IF out.nil
                     THEN [r EXCEPT !.pc = "done", !.via = "success", !.ret = <<"result", NilErr>>]
                     ELSE IF isTransient(out) /\ r.attempt < 3
                     THEN [r EXCEPT !.pc = "select", !.timer = r.backoff,
                                    !.woken = IF r.ctxDone THEN "ctx" ELSE "none"]
                     ELSE broken(r)
    /\ UNCHANGED <<accounts, saves, now, ticks, argonBase, h, settled, deleted, codec, limiter, sweeper>>

\* the timer of time.After(backoff) fires
TimerFires ==
    /\ retry.pc = "select"
    /\ retry.woken = "none"
    /\ retry' = [retry EXCEPT !.woken = "timer", !.waits = Append(retry.waits, retry.timer)]
    /\ UNCHANGED <<accounts, saves, now, ticks, argonBase, h, settled, deleted, codec, limiter, sweeper>>

\* the caller's context is cancelled or its deadline expires; a goroutine
\* parked in the select is woken by it
CtxDone ==
    /\ retry.pc \in {"exec", "select"}
    /\ ~retry.ctxDone
    /\ retry' = [retry EXCEPT !.ctxDone = TRUE,
                              !.woken = IF retry.pc = "select" /\ retry.woken = "none"
                                        THEN "ctx" ELSE retry.woken]
    /\ UNCHANGED <<accounts, saves, now, ticks, argonBase, h, settled, deleted, codec, limiter, sweeper>>

\* the woken goroutine runs the case of the select
Select ==
    /\ retry.pc = "select"
    /\ retry.woken # "none"
    /\ retry' = selected(retry)
    /\ UNCHANGED <<accounts, saves, now, ticks, argonBase, h, settled, deleted, codec, limiter, sweeper>>

InitRetry ==
    /\ InitStore
    /\ argonBase = TRUE
    /\ codec = NoCodec
    /\ sweeper = NoSweeper
    /\ limiter = NoLimiter
    /\ retry = [NoRetry EXCEPT !.pc = "exec", !.attempt = 1, !.backoff = 200]

NextRetry ==
    \/ ExecContext
    \/ TimerFires
    \/ CtxDone
    \/ Select

\* db.ExecContext returns, the timer fires and a woken goroutine runs
FairRetry == WF_vars(ExecContext) /\ WF_vars(TimerFires) /\ WF_vars(Select)

SpecRetry == InitRetry /\ [][NextRetry]_vars /\ FairRetry

(***************************************************************************)
(* The rate limiter of the save handler.  limiter holds minInterval        *)
(* (SAVE_MIN_INTERVAL_SECONDS), the clock in seconds, the holder of        *)
(* lastSaveMu (0 when free), the map lastSaveAt (NULL: no entry) and the   *)
(* requests g: the account, the credential (the account's valid one, one   *)
(* that ValidateArgonToken refuses, or none), the time.Now() taken on      *)
(* arrival, the entry read under the lock and the answer.  granted, failed *)
(* and verified are bookkeeping: the timestamps of the requests the        *)
(* limiter has let pass, the latest timestamp of a request let pass whose  *)
(* write failed, and the latest timestamp of a request let pass that bore  *)
(* the valid credential.                                                   *)
(***************************************************************************)
MaxClock == 12

\* seconds between two events
ClockSteps == {5, 6}

\* what the handler answers after the limiter: 200, 400, 403, 413, 500
Outcomes == {"OK", "BadRequest", "Unauthorized", "PayloadTooLarge", "InternalError"}

\* the credential of a request: argonToken is the account's, is another, is ""
Credentials == {"valid", "invalid", "missing"}

\* the answers a request can get after the limiter: 400 without argonToken,
\* 403 only from ValidateArgonToken, 200 only when it has accepted the token
Answers(cred) ==
    IF cred = "missing" THEN {"BadRequest"}
    ELSE IF cred = "invalid" THEN Outcomes \ {"OK"}
    ELSE Outcomes \ {"Unauthorized"}

\* a mutant of rateLimited: a request exactly minInterval later is refused too
rateLimited_le(ok, now_, last, minInterval) == ok /\ now_ - last <= minInterval

\* ok && now.Sub(last) < minInterval
rateLimited(ok, now_, last, minInterval) == ok /\ now_ - last < minInterval

\* a mutant of mark: the timestamp is not recorded
mark_none(tbl, a, now_) == tbl

\* a mutant of mark: the timestamp is recorded for every account
mark_all(tbl, a, now_) == [b \in DOMAIN tbl |-> now_]

\* lastSaveAt[req.AccountId] = now
mark(tbl, a, now_) == [tbl EXCEPT ![a] = now_]

\* a mutant of Free: lastSaveMu.Lock() does not wait
Free_always(mu) == TRUE

\* lastSaveMu.Lock() returns when no goroutine holds the mutex
Free(mu) == mu = 0

Greater(x, y) == IF x > y THEN x ELSE y

\* the request is read and parsed; now := time.Now(); the limiter is skipped
\* when minInterval is 0
limitNow(p, creds) ==
    /\ limiter.g[p].pc = "idle"
    /\ \E a \in Rows, c \in creds :
         limiter' = [limiter EXCEPT !.g[p] =
                       [NoRequest EXCEPT !.acct = a, !.cred = c, !.now = limiter.clock,
                                         !.pc = IF limiter.minInterval > 0 THEN "lock"
                                                ELSE "write"]]
    /\ UNCHANGED <<accounts, saves, now, ticks, argonBase, h, settled, deleted, codec, retry, sweeper>>

\* lastSaveMu.Lock()
limitLock(p) ==
    /\ limiter.g[p].pc = "lock"
    /\ Free(limiter.mu)
    /\ limiter' = [limiter EXCEPT !.mu = p, !.g[p].pc = "read"]
    /\ UNCHANGED <<accounts, saves, now, ticks, argonBase, h, settled, deleted, codec, retry, sweeper>>

\* last, ok := lastSaveAt[req.AccountId] and the test; 429 after lastSaveMu.Unlock()
limitRead(p) ==
    /\ limiter.g[p].pc = "read"
    /\ LET r == limiter.g[p]
           last == limiter.lastSaveAt[r.acct]
           ok == last # NULL
       IN limiter' =
            IF rateLimited(ok, r.now, last, limiter.minInterval)
            THEN [limiter EXCEPT !.mu = 0,
                                 !.g[p] = [r EXCEPT !.last = last, !.ok = ok, !.pc = "done",
                                                    !.status = "RateLimited"]]
            ELSE [limiter EXCEPT !.g[p] = [r EXCEPT !.last = last, !.ok = ok, !.pc = "mark"]]
    /\ UNCHANGED <<accounts, saves, now, ticks, argonBase, h, settled, deleted, codec, retry, sweeper>>

\* lastSaveAt[req.AccountId] = now; lastSaveMu.Unlock()
limitMark(p) ==
    /\ limiter.g[p].pc = "mark"
    /\ LET r == limiter.g[p]
       IN limiter' = [limiter EXCEPT !.lastSaveAt = mark(limiter.lastSaveAt, r.acct, r.now),
                                     !.mu = 0,
                                     !.g[p].pc = "write",
                                     !.granted[r.acct] = @ \cup {r.now},
                                     !.verified[r.acct] =
                                        IF r.cred = "valid" THEN r.now ELSE @]
    /\ UNCHANGED <<accounts, saves, now, ticks, argonBase, h, settled, deleted, codec, retry, sweeper>>

\* the rest of the handler: the checks of the request, the store writes, the answer
limitWrite(p) ==
    /\ limiter.g[p].pc = "write"
    /\ \E out \in Answers(limiter.g[p].cred) :
         LET r == limiter.g[p]
         IN limiter' = [limiter EXCEPT
                          !.g[p] = [r EXCEPT !.pc = "done", !.status = out],
                          !.failed[r.acct] = IF out = "OK" \/ limiter.minInterval = 0 THEN @
                                             ELSE Greater(@, r.now)]
    /\ UNCHANGED <<accounts, saves, now, ticks, argonBase, h, settled, deleted, codec, retry, sweeper>>

\* the handler has returned
limitReturn(p) ==
    /\ limiter.g[p].pc = "done"
    /\ limiter' = [limiter EXCEPT !.g[p] = NoRequest]
    /\ UNCHANGED <<accounts, saves, now, ticks, argonBase, h, settled, deleted, codec, retry, sweeper>>

\* time passes
limitTick ==
    /\ \E d \in ClockSteps :
         /\ limiter.clock + d <= MaxClock
         /\ limiter' = [limiter EXCEPT !.clock = limiter.clock + d]
    /\ UNCHANGED <<accounts, saves, now, ticks, argonBase, h, settled, deleted, codec, retry, sweeper>>

\* the server has started, with SAVE_MIN_INTERVAL_SECONDS 0 or the default 10
InitLimiter ==
    /\ InitStore
    /\ argonBase = TRUE
    /\ codec = NoCodec
    /\ sweeper = NoSweeper
    /\ retry = NoRetry
    /\ \E i \in {0, 10} :
         limiter = [NoLimiter EXCEPT !.minInterval = i,
                                     !.lastSaveAt = [a \in Rows |-> NULL],
                                     !.granted = [a \in Rows |-> {}],
                                     !.failed = [a \in Rows |-> NULL],
                                     !.verified = [a \in Rows |-> NULL]]

NextLimiter ==
    \/ \E p \in Procs : limitNow(p, {"valid"})
    \/ \E p \in Procs : limitLock(p)
    \/ \E p \in Procs : limitRead(p)
    \/ \E p \in Procs : limitMark(p)
    \/ \E p \in Procs : limitWrite(p)
    \/ \E p \in Procs : limitReturn(p)
    \/ limitTick

SpecLimiter == InitLimiter /\ [][NextLimiter]_vars

(***************************************************************************)
(* SpecThrottle: the requests of one client after another, with the        *)
(* account's valid credential, with one that ValidateArgonToken refuses    *)
(* and with none.                                                          *)
(***************************************************************************)
NextThrottle ==
    \/ limitNow(1, Credentials)
    \/ limitLock(1)
    \/ limitRead(1)
    \/ limitMark(1)
    \/ limitWrite(1)
    \/ limitReturn(1)
    \/ limitTick

SpecThrottle == InitLimiter /\ [][NextThrottle]_vars

(***************************************************************************)
(* startCleanupRoutine.  sweeper.first is the goroutine of go runCleanup(),*)
(* sweeper.ticker the goroutine that ranges over ticker.C and calls        *)
(* runCleanup for every tick it receives; pending is the tick buffered in  *)
(* ticker.C.  t counts the minutes since the process started.  A run ends  *)
(* when its statement returns, which the context of the run bounds to      *)
(* CleanupTimeout minutes; a goroutine that can run does so within the     *)
(* minute.                                                                 *)
(***************************************************************************)
MaxSweepMinutes == 2883

\* time.NewTicker(24 * time.Hour), in minutes
TickerPeriod == 24 * 60

\* a mutant of CleanupTimeout: a run may outlast the ticker period
CleanupTimeout_long == TickerPeriod + 1

\* context.WithTimeout(context.Background(), 2*time.Minute), in minutes
CleanupTimeout == 2

\* the process starts the routine: go runCleanup() and the ticker goroutine
startCleanupRoutine ==
    /\ sweeper.first = "none"
    /\ sweeper' = [sweeper EXCEPT !.first = "ready", !.ticker = "waiting",
                                  !.nextTick = sweeper.t + TickerPeriod]
    /\ UNCHANGED <<accounts, saves, now, ticks, argonBase, h, settled, deleted, codec, retry, limiter>>

\* the goroutine of go runCleanup() enters runCleanup
firstBegins ==
    /\ sweeper.first = "ready"
    /\ sweeper' = [sweeper EXCEPT !.first = "running", !.firstBegan = sweeper.t]
    /\ UNCHANGED <<accounts, saves, now, ticks, argonBase, h, settled, deleted, codec, retry, limiter>>

\* its runCleanup returns
firstReturns ==
    /\ sweeper.first = "running"
    /\ sweeper' = [sweeper EXCEPT !.first = "done"]
    /\ UNCHANGED <<accounts, saves, now, ticks, argonBase, h, settled, deleted, codec, retry, limiter>>

\* the ticker sends on ticker.C, which buffers one tick and drops the others
tickerSends ==
    /\ sweeper.ticker # "none"
    /\ sweeper.t = sweeper.nextTick
    /\ sweeper' = [sweeper EXCEPT !.pending = TRUE, !.nextTick = sweeper.t + TickerPeriod]
    /\ UNCHANGED <<accounts, saves, now, ticks, argonBase, h, settled, deleted, codec, retry, limiter>>

\* for range ticker.C: the goroutine receives the tick and enters runCleanup
tickerBegins ==
    /\ sweeper.ticker = "waiting"
    /\ sweeper.pending
    /\ sweeper' = [sweeper EXCEPT !.ticker = "running", !.pending = FALSE,
                                  !.tickerBegan = sweeper.t]
    /\ UNCHANGED <<accounts, saves, now, ticks, argonBase, h, settled, deleted, codec, retry, limiter>>

\* its runCleanup returns
tickerReturns ==
    /\ sweeper.ticker = "running"
    /\ sweeper' = [sweeper EXCEPT !.ticker = "waiting"]
    /\ UNCHANGED <<accounts, saves, now, ticks, argonBase, h, settled, deleted, codec, retry, limiter>>

\* a minute passes: no goroutine is waiting to run, no tick is due, and no
\* run is at the end of its context
Minute ==
    /\ sweeper.t < MaxSweepMinutes
    /\ sweeper.first \notin {"none", "ready"}
    /\ ~(sweeper.pending /\ sweeper.ticker = "waiting")
    /\ sweeper.t < sweeper.nextTick
    /\ sweeper.first = "running" => sweeper.t < sweeper.firstBegan + CleanupTimeout
    /\ sweeper.ticker = "running" => sweeper.t < sweeper.tickerBegan + CleanupTimeout
    /\ sweeper' = [sweeper EXCEPT !.t = sweeper.t + 1]
    /\ UNCHANGED <<accounts, saves, now, ticks, argonBase, h, settled, deleted, codec, retry, limiter>>

NextTicker ==
    \/ startCleanupRoutine
    \/ firstBegins
    \/ firstReturns
    \/ tickerSends
    \/ tickerBegins
    \/ tickerReturns
    \/ Minute

SpecTicker == InitArgon /\ [][NextTicker]_vars

(***************************************************************************)
(* Properties.                                                             *)
(***************************************************************************)

\* goroutine p takes a step of its own
Steps(p) == h'[p].pc # h[p].pc

\* the account row holds the presented token, validated no more than ttl ago
FreshMatch(row, token, t) ==
    /\ row.exists
    /\ row.argon_token = token
    /\ row.token_validated_at # NULL
    /\ t - row.token_validated_at <= 5

\* C10: a Validate whose lookup finds the presented credential stored and
\* verified no more than five minutes ago answers Valid at that step and
\* has sent no request to Argon.
C10_FreshCacheNoRemote ==
    [][\A p \in Procs :
         (/\ h[p].op = "Validate"
          /\ h[p].pc = "v_lookup"
          /\ Steps(p)
          /\ FreshMatch(accounts[h[p].acct], h[p].token, now))
         => (/\ h'[p].pc = "done"
             /\ h'[p].status = "OK"
             /\ ~h'[p].called)]_vars

\* C10 witness: Valid without a request, the validation exactly ttl old
C10_Witness ==
    \E p \in Procs :
      /\ h[p].op = "Validate" /\ h[p].pc = "done" /\ h[p].status = "OK"
      /\ ~h[p].called
      /\ argonBase
      /\ accounts[h[p].acct].exists
      /\ accounts[h[p].acct].argon_token = h[p].token
      /\ accounts[h[p].acct].token_validated_at # NULL
      /\ now - accounts[h[p].acct].token_validated_at = 5

\* C8 as stated: with an Argon endpoint configured, a Validate that answers
\* Valid or Invalid without having found a fresh matching cache entry has
\* queried Argon first.
C8_RemoteBeforeAnswer ==
    [][\A p \in Procs :
         (/\ argonBase
          /\ h[p].op = "Validate"
          /\ Steps(p)
          /\ h'[p].pc = "done"
          /\ h'[p].status \in {"OK", "Unauthorized"}
          /\ ~FreshMatch(accounts[h[p].acct], h[p].token, now))
         => h'[p].called]_vars

\* C9 as stated: after a positive answer of Argon the Validate returns
\* Valid and the account row exists with the presented credential and
\* token_validated_at equal to the time of the answer.
C9_PositiveAnswerRecorded ==
    [][\A p \in Procs :
         (h[p].op = "Validate" /\ h[p].pc = "v_update" /\ Steps(p))
         => (/\ h'[p].pc = "done"
             /\ h'[p].status = "OK"
             /\ accounts'[h[p].acct].exists
             /\ accounts'[h[p].acct].argon_token = h[p].token
             /\ accounts'[h[p].acct].token_validated_at = now)]_vars

\* Argon has answered {valid: true} to the request of goroutine p
PositiveAnswer(p) == h[p].called /\ h[p].pc = "v_update"

\* C3 as stated: with an Argon endpoint configured, an account row is
\* created only by a request to which Argon has answered positively.
C3_CreatedAfterVerification ==
    [][\A a \in Accounts :
         (argonBase /\ ~accounts[a].exists /\ accounts'[a].exists)
         => \E p \in Procs : h[p].acct = a /\ Steps(p) /\ PositiveAnswer(p)]_vars

\* the Save of goroutine p has not yet got past ValidateArgonToken
BeforeValidated(p) ==
    h[p].op = "Save" /\ h[p].pc \in {"s_account", "s_newacct", "v_lookup", "v_insert",
                                      "v_remote", "v_update"}

\* C2: a Save whose token check finds an account row holding another
\* credential ends Unauthorized at that step, and no step a Save takes up to
\* and including its token check changes the saves table.
C2_WrongCredentialRefused ==
    [][\A p \in Procs :
         /\ (/\ h[p].op = "Save"
             /\ h[p].pc = "v_lookup"
             /\ Steps(p)
             /\ accounts[h[p].acct].exists
             /\ accounts[h[p].acct].argon_token # h[p].token)
            => (h'[p].pc = "done" /\ h'[p].status = "Unauthorized")
         /\ (BeforeValidated(p) /\ Steps(p)) => saves' = saves]_vars

\* C2 witness: a Save refused as Unauthorized, the stored save untouched
C2_Witness ==
    \E p \in Procs :
      /\ h[p].op = "Save" /\ h[p].pc = "done" /\ h[p].status = "Unauthorized"
      /\ accounts[h[p].acct].exists
      /\ accounts[h[p].acct].argon_token # h[p].token
      /\ saves[h[p].acct].exists
      /\ saves[h[p].acct].save_data = "a"
      /\ h[p].saveData = "b"

\* the bytes the saves row would hold after the Save of goroutine p
ProposedBytes(p) ==
    LET row == saves[h[p].acct] IN
    (IF h[p].saveData # "" THEN Len(h[p].saveData) ELSE Len(row.save_data))
    + (IF h[p].levelData # "" THEN Len(h[p].levelData) ELSE Len(row.level_data))

\* the quota of the Save of goroutine p, by the subscriber flag it has read
QuotaOf(p) ==
    IF h[p].isSubscriber THEN SUBSCRIBER_MAX_DATA_SIZE_BYTES ELSE MAX_DATA_SIZE_BYTES

\* C5: the size check of a Save answers QuotaExceeded exactly when the
\* proposed total exceeds the quota (a total equal to the quota passes),
\* the answer carries the quota as limit and the proposed total as required,
\* and no other step answers QuotaExceeded.
C5_QuotaExceededExactly ==
    [][\A p \in Procs :
         /\ (h[p].pc = "s_sizes" /\ Steps(p) /\ saves[h[p].acct].exists)
            => /\ (h'[p].status = "QuotaExceeded") <=> (ProposedBytes(p) > QuotaOf(p))
               /\ (h'[p].status = "QuotaExceeded")
                  => (h'[p].limit = QuotaOf(p) /\ h'[p].required = ProposedBytes(p))
         /\ (Steps(p) /\ h'[p].status = "QuotaExceeded") => h[p].pc = "s_sizes"]_vars

\* C5 witness: the row holds exactly the quota, accepted before, and a Save
\* proposing one byte more is refused with that limit and requirement
C5_Witness ==
    \E p \in Procs :
      /\ h[p].op = "Save" /\ h[p].pc = "done" /\ h[p].status = "QuotaExceeded"
      /\ h[p].required = h[p].limit + 1
      /\ saves[h[p].acct].exists
      /\ Len(saves[h[p].acct].save_data) + Len(saves[h[p].acct].level_data) = h[p].limit

Writing(a) == \E p \in Procs : Writer(h[p], a)

\* C4 as stated: whenever no Save or Delete of the account is under way,
\* the bytes stored for it do not exceed the quota of the account.
C4_StoredWithinQuota ==
    \A a \in Accounts :
      (saves[a].exists /\ accounts[a].exists /\ ~Writing(a))
      => Len(saves[a].save_data) + Len(saves[a].level_data)
           <= maxDataSize(accounts[a].subscriber)

\* C6 as stated: a Save that answers OK has had every UPDATE it issued
\* match the row of the account.
C6_OkOnlyIfStored ==
    \A p \in Procs :
      (h[p].op = "Save" /\ h[p].pc = "done" /\ h[p].status = "OK") => ~h[p].missed

\* C7 as stated: what a load handler decompresses from the stored form of
\* a payload is the payload, for every payload and every stored form.
C7_RoundTrip ==
    codec.pc \in {"loaded", "loadedLevel"} => codec.loaded = codec.data

\* the stored forms of compressData
Raw(c) == c.stored = c.data
GzTagged(c) == c.stored[1] = "tag" /\ c.stored[2] = "GZ:"
B64GzTagged(c) == c.stored[1] = "tag" /\ c.stored[2] = "B64GZ:"

\* goroutine q has finished a Validate of the pair goroutine p presents,
\* for which Argon answered positively
Confirmed(q, p) ==
    /\ h[q].op = "Validate" /\ h[q].pc = "done" /\ h[q].status = "OK" /\ h[q].called
    /\ h[q].acct = h[p].acct /\ h[q].token = h[p].token

\* C11 as stated: once a Validate of a pair has been confirmed by Argon, a
\* second Validate of the pair that begins in the same TTL window is decided
\* without a second request.
C11_OneRequestPerWindow ==
    [][\A p, q \in Procs :
         (/\ p # q
          /\ Confirmed(q, p)
          /\ h[p].op = "Validate" /\ h[p].pc = "v_lookup"
          /\ Steps(p))
         => h'[p].pc # "v_remote"]_vars

\* C12: when Argon answers {valid: false} to a Validate, the Validate
\* answers Invalid at that step and the accounts table is unchanged.
C12_NegativeAnswerNoChange ==
    [][\A p \in Procs :
         (h[p].op = "Validate" /\ ValidateRemoteAnswer(p, "invalid"))
         => (/\ h'[p].pc = "done"
             /\ h'[p].status = "Unauthorized"
             /\ accounts' = accounts)]_vars

\* C12 witness: a Validate refused on the answer of Argon, the row of the
\* account still holding the presented token, never validated
C12_Witness ==
    \E p \in Procs :
      /\ h[p].op = "Validate" /\ h[p].pc = "done" /\ h[p].status = "Unauthorized"
      /\ h[p].called
      /\ accounts[h[p].acct].exists
      /\ accounts[h[p].acct].argon_token = h[p].token
      /\ accounts[h[p].acct].token_validated_at = NULL

\* C13: when the request of a Validate to Argon fails in transport, ends
\* with a status other than 200 or brings a body that does not parse, the
\* Validate answers InternalError at that step, neither Valid nor Invalid,
\* and the accounts table is unchanged.
C13_RemoteFailureIsError ==
    [][\A p \in Procs : \A ans \in {"neterr", "http", "badjson"} :
         (h[p].op = "Validate" /\ ValidateRemoteAnswer(p, ans))
         => (/\ h'[p].pc = "done"
             /\ h'[p].status = "InternalError"
             /\ accounts' = accounts)]_vars

\* C13 witness: a Validate has ended in InternalError after its request
C13_Witness ==
    \E p \in Procs :
      /\ h[p].op = "Validate" /\ h[p].pc = "done" /\ h[p].status = "InternalError"
      /\ h[p].called
      /\ accounts[h[p].acct].exists
      /\ accounts[h[p].acct].argon_token = h[p].token

\* goroutine p handles a Save, Load or LoadLevel
Guarded(p) == h[p].op \in {"Save", "Load", "LoadLevel"}

\* goroutine p is in ValidateArgonToken or in the statements before it
Validating(p) ==
    h[p].pc \in {"s_account", "s_newacct", "v_lookup", "v_insert", "v_remote", "v_update"}

\* C14: in Save, Load and LoadLevel a validation that ends in an error
\* (the request to Argon failing) is answered InternalError and one that
\* ends invalid (Argon answering negatively, or the stored token differing)
\* is answered Unauthorized, the handler ending at that step; and no step
\* taken up to the end of the validation changes the saves table.
C14_ErrorAndInvalidDistinct ==
    [][\A p \in Procs :
         /\ \A ans \in {"neterr", "http", "badjson"} :
              (Guarded(p) /\ ValidateRemoteAnswer(p, ans))
              => (h'[p].pc = "done" /\ h'[p].status = "InternalError")
         /\ (Guarded(p) /\ ValidateRemoteAnswer(p, "invalid"))
            => (h'[p].pc = "done" /\ h'[p].status = "Unauthorized")
         /\ (/\ Guarded(p) /\ h[p].pc = "v_lookup" /\ Steps(p)
             /\ accounts[h[p].acct].exists
             /\ accounts[h[p].acct].argon_token # h[p].token)
            => (h'[p].pc = "done" /\ h'[p].status = "Unauthorized")
         /\ (Guarded(p) /\ Validating(p) /\ Steps(p)) => saves' = saves]_vars

\* C14 witness: a Load ended in InternalError on a failed request to Argon,
\* the save of the account in place
C14_Witness ==
    \E p \in Procs :
      /\ h[p].op = "Load" /\ h[p].pc = "done" /\ h[p].status = "InternalError"
      /\ h[p].called
      /\ saves[h[p].acct].exists
      /\ saves[h[p].acct].save_data = "a"

\* the verification cached for the account is older than the TTL
Stale(row, t) == row.exists /\ row.token_validated_at # NULL /\ t - row.token_validated_at > 5

\* C15 as stated: with an Argon endpoint configured and the cached
\* verification of the account older than the TTL, a Delete or an Inspect
\* answers OK only after Argon has been asked about the presented pair.
C15_DeleteInspectValidated ==
    [][\A p \in Procs :
         (/\ argonBase
          /\ h[p].op \in {"Delete", "Inspect"}
          /\ Steps(p)
          /\ h'[p].pc = "done" /\ h'[p].status = "OK"
          /\ Stale(accounts[h[p].acct], now))
         => h'[p].called]_vars

\* C16 as stated, for the step that answers: the step of a Save that
\* answers PayloadTooLarge changes neither the accounts nor the saves table.
C16_TooLargeBeforeWrite ==
    [][\A p \in Procs :
         (h[p].op = "Save" /\ Steps(p) /\ h'[p].status = "PayloadTooLarge")
         => (saves' = saves /\ accounts' = accounts)]_vars

\* C17: no step of a Save that supplies no level data changes the stored
\* level_data, and none of a Save that supplies no save data changes the
\* stored save_data; a row the Save creates has the empty value there; an
\* UPDATE that goes through sets its own column to the payload and
\* created_at to the time of the write.
C17_PartialUpdate ==
    [][\A p \in Procs :
         (h[p].op = "Save" /\ Steps(p))
         => LET old == saves[h[p].acct]
                new == saves'[h[p].acct]
            IN /\ h[p].levelData = "" => new.level_data = old.level_data
               /\ h[p].saveData = "" => new.save_data = old.save_data
               /\ old.exists => new.exists
               /\ (h[p].pc = "s_upsave" /\ old.exists /\ h'[p].status # "InternalError")
                  => (new.save_data = h[p].saveData /\ new.created_at = now)
               /\ (h[p].pc = "s_uplevel" /\ old.exists /\ h'[p].status # "InternalError")
                  => (new.level_data = h[p].levelData /\ new.created_at = now)]_vars

\* C17 witness: a Save of level data alone has answered OK, the save text
\* stored before still in place and the timestamp renewed
C17_Witness ==
    \E p \in Procs :
      /\ h[p].op = "Save" /\ h[p].pc = "done" /\ h[p].status = "OK"
      /\ h[p].saveData = "" /\ h[p].levelData = "a"
      /\ saves[h[p].acct].exists
      /\ saves[h[p].acct].save_data = "b"
      /\ saves[h[p].acct].level_data = "a"
      /\ saves[h[p].acct].created_at = now
      /\ now > 0

\* the column a Load or LoadLevel of goroutine p reads, "" when never written
Wanted(p) ==
    IF h[p].op = "Load" THEN saves[h[p].acct].save_data ELSE saves[h[p].acct].level_data

\* C18 as stated: the SELECT of a Load or LoadLevel answers NotFound exactly
\* when the account has no saves row or the wanted column was never
\* written, and otherwise answers OK with the stored text.
C18_NotFoundExactly ==
    [][\A p \in Procs :
         (h[p].op \in {"Load", "LoadLevel"} /\ h[p].pc = "l_select" /\ Steps(p))
         => /\ (h'[p].status = "NotFound")
                 <=> (~saves[h[p].acct].exists \/ Wanted(p) = "")
            /\ (h'[p].status # "NotFound")
                 => (h'[p].status = "OK" /\ h'[p].body = Wanted(p))]_vars

\* C19 as stated: once a Delete of an account has answered OK and no Save
\* of that account has answered OK since, a Load of the account that
\* reaches its SELECT answers NotFound.
C19_NotFoundAfterDelete ==
    [][\A p \in Procs :
         (h[p].op = "Load" /\ h[p].pc = "l_select" /\ Steps(p) /\ deleted[h[p].acct])
         => h'[p].status = "NotFound"]_vars

\* C20: a step of a Delete leaves every accounts row as it was and changes
\* no saves row but the one of the account it names, which is gone when
\* the Delete has answered OK.
C20_DeleteOnlySaveRecord ==
    [][\A p \in Procs :
         (h'[p].op = "Delete" /\ Steps(p))
         => /\ accounts' = accounts
            /\ \A b \in DOMAIN saves \ {h'[p].acct} : saves'[b] = saves[b]
            /\ h'[p].status = "OK" => ~saves'[h'[p].acct].exists]_vars

\* a Delete has answered OK: the account's row is there with its token, its
\* saves row is gone, and the bystander still has both rows
C20_Witness ==
    \E p \in Procs :
      /\ h[p].op = "Delete" /\ h[p].pc = "done" /\ h[p].status = "OK"
      /\ accounts[h[p].acct].exists /\ accounts[h[p].acct].argon_token = h[p].token
      /\ accounts[h[p].acct].subscriber
      /\ ~saves[h[p].acct].exists
      /\ accounts[Bystander].exists /\ saves[Bystander].exists
      /\ saves[Bystander].save_data = "a"

\* C21: a Save takes the subscriber flag from the accounts row it reads and
\* keeps it to its end; its size check refuses exactly the totals above the
\* subscriber quota when that flag is set and above the base quota
\* otherwise; a change of the flag of an account changes no saves row and
\* no request that has already read the flag.
C21_QuotaByFlagAtSave ==
    [][/\ \A p \in Procs :
            /\ (h[p].pc = "s_account" /\ Steps(p) /\ accounts[h[p].acct].exists)
               => h'[p].isSubscriber = accounts[h[p].acct].subscriber
            /\ (h[p].op = "Save" /\ h[p].pc \notin {"s_account", "done"} /\ Steps(p))
               => h'[p].isSubscriber = h[p].isSubscriber
            /\ (h[p].pc = "s_sizes" /\ Steps(p) /\ saves[h[p].acct].exists)
               => ((h'[p].status = "QuotaExceeded")
                     <=> ProposedBytes(p) > (IF h[p].isSubscriber
                                             THEN SUBSCRIBER_MAX_DATA_SIZE_BYTES
                                             ELSE MAX_DATA_SIZE_BYTES))
       /\ (\E a \in Accounts : /\ accounts[a].exists /\ accounts'[a].exists
                               /\ accounts'[a].subscriber # accounts[a].subscriber)
          => (saves' = saves /\ h' = h)]_vars

\* C21 witness: a Save of an account that became a subscriber has answered
\* OK and the row holds more than the base quota
C21_Witness ==
    \E p \in Procs :
      /\ h[p].op = "Save" /\ h[p].pc = "done" /\ h[p].status = "OK"
      /\ h[p].isSubscriber /\ accounts[h[p].acct].subscriber
      /\ Len(saves[h[p].acct].save_data) + Len(saves[h[p].acct].level_data)
           > MAX_DATA_SIZE_BYTES

\* C22: what compressData stores for a payload is either the payload itself
\* or a tagged form that is at least 10% shorter than the payload; the
\* stored form is never longer than the payload.
C22_CompressedOnlyIfSmaller ==
    codec.pc = "stored"
    => /\ Raw(codec) \/ (codec.stored[1] = "tag"
                          /\ 10 * Length(codec.stored) <= 9 * Length(codec.data))
       /\ Length(codec.stored) <= Length(codec.data)

\* C22 witness: a payload of 140 bytes has been stored in its tagged form
\* of 122 bytes, the longest that is still taken
C22_Witness ==
    /\ codec.pc = "stored"
    /\ Length(codec.data) = 140
    /\ B64GzTagged(codec)
    /\ Length(codec.stored) = 122
    /\ Length(codec.stored) < NinetyPercent(Length(codec.data))

\* C23: execWithRetries returns in the end, having called db.ExecContext at
\* most 3 times; a call follows an earlier one only if that one failed with
\* a transient error and was not the third; a call that succeeds or fails
\* with a permanent error is the last and the function returns with it.
C23_AtMostThreeAttempts ==
    /\ [](retry.calls <= 3)
    /\ [][(retry'.calls # retry.calls /\ retry.calls >= 1)
           => (retry.lastErr \in TransientErrors /\ retry.calls < 3)]_vars
    /\ [][(retry'.calls # retry.calls /\ retry'.lastErr \notin TransientErrors)
           => retry'.pc = "done"]_vars
    /\ <>(retry.pc = "done")

\* C23 witness: three calls, each failed with a transient error, and the
\* function has returned
C23_Witness ==
    /\ retry.pc = "done"
    /\ retry.calls = 3
    /\ retry.attempt = 3
    /\ retry.lastErr \in TransientErrors

\* C24: when the caller's context is done while execWithRetries is parked
\* in the select between two attempts, the select is woken by ctx.Done(),
\* and its next step returns ctx.Err() with a nil result without another
\* call of db.ExecContext; that step is taken.
C24_CancelledWhileWaiting ==
    /\ [][/\ (retry.pc = "select" /\ retry.woken = "none" /\ ~retry.ctxDone /\ retry'.ctxDone)
             => retry'.woken = "ctx"
          /\ (retry.pc = "select" /\ retry.woken = "ctx" /\ retry'.pc # "select")
             => /\ retry'.pc = "done"
                /\ retry'.ret = <<"nil", CtxErr>>
                /\ retry'.calls = retry.calls]_vars
    /\ (retry.pc = "select" /\ retry.woken = "ctx")
         ~> (retry.pc = "done" /\ retry.ret = <<"nil", CtxErr>>)

\* C24 witness: the context was done during the wait after the second
\* attempt, and the function has returned ctx.Err() after two calls
C24_Witness ==
    /\ retry.pc = "done"
    /\ retry.via = "ctx"
    /\ retry.ctxDone
    /\ retry.calls = 2
    /\ retry.lastErr \in TransientErrors
    /\ retry.ret = <<"nil", CtxErr>>

\* C25: when execWithRetries returns through the break, after a permanent
\* error or the third transient one, the error it returns is the error of
\* the latest call of db.ExecContext; it returns a nil error only when the
\* latest call succeeded.
C25_LastErrorReturned ==
    retry.pc = "done"
    => /\ retry.via = "break" => (retry.ret[2] = retry.lastErr /\ ~retry.lastErr.nil)
       /\ retry.ret[2].nil => (retry.via = "success" /\ retry.lastErr.nil)

\* C25 witness: the second call failed with a permanent error and that
\* error has been returned
C25_Witness ==
    /\ retry.pc = "done"
    /\ retry.via = "break"
    /\ retry.calls = 2
    /\ retry.lastErr \in PermanentErrors
    /\ retry.ret[2] = retry.lastErr

\* a request of the rate limited save handler takes a step
Moves(p) == limiter'.g[p].pc # limiter.g[p].pc

\* C26: with a positive minimum interval a request is refused as rate
\* limited exactly when a timestamp is recorded for its account and less
\* than the interval lies between that timestamp and the request's own, and
\* is let pass otherwise; with interval 0 every request is let pass; no
\* other step answers RateLimited.
C26_AllowedExactly ==
    [][\A p \in Procs :
         LET r == limiter.g[p]
             last == limiter.lastSaveAt[r.acct]
             allowed == last = NULL \/ r.now - last >= limiter.minInterval
         IN /\ (r.pc = "read" /\ Moves(p))
               => /\ limiter'.g[p].status = "RateLimited" <=> ~allowed
                  /\ allowed => limiter'.g[p].pc = "mark"
            /\ (r.pc = "idle" /\ Moves(p) /\ limiter.minInterval = 0)
               => limiter'.g[p].pc = "write"
            /\ (Moves(p) /\ limiter'.g[p].status = "RateLimited") => r.pc = "read"]_vars

\* C26 witness: interval 10; a request 5 seconds after the recorded
\* timestamp was refused and a request 11 seconds after it has been let pass
C26_Witness ==
    \E p, q \in Procs :
      /\ limiter.minInterval = 10
      /\ limiter.g[p].status = "RateLimited"
      /\ limiter.g[p].last = 0 /\ limiter.g[p].now = 5
      /\ limiter.g[q].acct = limiter.g[p].acct
      /\ limiter.g[q].pc = "write"
      /\ limiter.g[q].last = 0 /\ limiter.g[q].now = 11

\* C27: the request that is let pass has its timestamp recorded before the
\* rest of the handler runs, whose steps leave the recorded timestamps
\* alone, whatever their outcome; a request whose timestamp is less than
\* the interval after that of a request that was let pass and then failed
\* is refused.
C27_MarkedBeforeWrite ==
    [][\A p \in Procs :
         LET r == limiter.g[p]
         IN /\ (r.pc = "mark" /\ Moves(p))
               => /\ limiter'.g[p].pc = "write"
                  /\ limiter'.lastSaveAt[r.acct] = r.now
            /\ (r.pc = "write" /\ Moves(p)) => limiter'.lastSaveAt = limiter.lastSaveAt
            /\ (r.pc = "read" /\ Moves(p) /\ limiter.failed[r.acct] # NULL
                  /\ r.now >= limiter.failed[r.acct]
                  /\ r.now - limiter.failed[r.acct] < limiter.minInterval)
               => limiter'.g[p].status = "RateLimited"]_vars

\* C27 witness: a request let pass at 0 failed in its write, and a request
\* of the account 6 seconds later has been refused
C27_Witness ==
    \E p \in Procs :
      /\ limiter.g[p].status = "RateLimited"
      /\ limiter.g[p].now = 6
      /\ limiter.failed[limiter.g[p].acct] = 0
      /\ limiter.granted[limiter.g[p].acct] = {0}

\* C28: lastSaveMu is held from the read of an account's timestamp to its
\* update, by one request at a time; a request is let pass only with a
\* timestamp at least the minimum interval away from the timestamp of every
\* request of the account let pass before it, so of several requests with
\* one timestamp at most one is let pass.
C28_AtomicReadThenUpdate ==
    /\ [](\A p \in Procs : limiter.g[p].pc \in {"read", "mark"} <=> limiter.mu = p)
    /\ [][\A p \in Procs :
            LET r == limiter.g[p]
            IN (r.pc = "mark" /\ Moves(p))
               => \A s \in limiter.granted[r.acct] :
                    (r.now - s >= limiter.minInterval \/ s - r.now >= limiter.minInterval)]_vars

\* C28 witness: two requests of one account arrived at the same time; one
\* has been let pass and the other refused
C28_Witness ==
    \E p, q \in Procs :
      /\ p # q
      /\ limiter.g[p].acct = limiter.g[q].acct
      /\ limiter.g[p].now = limiter.g[q].now
      /\ limiter.g[p].pc \in {"write", "done"} /\ limiter.g[p].status # "RateLimited"
      /\ limiter.g[q].status = "RateLimited"
      /\ limiter.g[q].last = limiter.g[q].now

\* C29: a run of runCleanup removes the saves row and the accounts row of
\* exactly the accounts whose save was written more than 100 days before,
\* both rows of an account or neither, and leaves every other row as it was.
C29_SweepExactlyOld ==
    [][sweeper' # sweeper
       => \A a \in DOMAIN saves :
            LET old == /\ accounts[a].exists /\ saves[a].exists
                       /\ now - saves[a].created_at > RetentionDays * MinutesPerDay
            IN /\ old => (~accounts'[a].exists /\ ~saves'[a].exists)
               /\ ~old => (accounts'[a] = accounts[a] /\ saves'[a] = saves[a])
               /\ accounts'[a].exists = accounts[a].exists
                    \/ saves'[a].exists = accounts'[a].exists]_vars

\* C29 witness: a run has removed the two rows of one account, and the
\* save of the other account, 100 days old, is still there with its account
C29_Witness ==
    /\ sweeper.rows = 2
    /\ ~accounts["u1"].exists /\ ~saves["u1"].exists
    /\ accounts[Bystander].exists /\ saves[Bystander].exists
    /\ now - saves[Bystander].created_at = RetentionDays * MinutesPerDay

\* C30: the run of runCleanup started with the process and a run started
\* for a tick are never in progress together; the runs for the ticks are
\* made by one goroutine, one after the other.
C30_OneRunAtATime ==
    ~(sweeper.first = "running" /\ sweeper.ticker = "running")

\* C30 witness: the run for the first tick is in progress, a day after
\* the run started with the process, which has returned
C30_Witness ==
    /\ sweeper.ticker = "running"
    /\ sweeper.tickerBegan = TickerPeriod
    /\ sweeper.first = "done"
    /\ sweeper.firstBegan = 0

\* C31 as stated: with ARGON_BASE_URL unset a Validate sends no request to
\* Argon, and it answers OK exactly when the accounts row holds the
\* presented token at the step that decides the answer.
C31_LocalFallback ==
    [][\A p \in Procs :
         (~argonBase /\ h[p].op = "Validate" /\ Steps(p))
         => /\ ~h'[p].called
            /\ h'[p].pc = "done"
               => (h'[p].status = "OK"
                     <=> (accounts[h[p].acct].exists
                          /\ accounts[h[p].acct].argon_token = h[p].token))]_vars

\* C32 as stated: token_validated_at of a row, when set, is not after now;
\* it is set only by a Validate that has had Argon's positive answer for the
\* token the row holds, to the time of that answer; a row that is created
\* starts without it; and every positive answer for the token a row holds
\* leaves the row with the time of that answer, so that the value is the
\* time of the latest one.
C32_VerifiedAtOfStoredToken ==
    /\ [](\A a \in DOMAIN accounts :
            (accounts[a].exists /\ accounts[a].token_validated_at # NULL)
            => accounts[a].token_validated_at <= now)
    /\ [][\A a \in DOMAIN accounts :
            /\ (accounts'[a].exists /\ ~accounts[a].exists)
               => accounts'[a].token_validated_at = NULL
            /\ (accounts'[a].exists /\ accounts[a].exists
                  /\ accounts'[a].token_validated_at # accounts[a].token_validated_at)
               => \E p \in Procs :
                    /\ h[p].pc = "v_update" /\ h[p].acct = a /\ h[p].called
                    /\ h[p].token = accounts'[a].argon_token
                    /\ accounts'[a].token_validated_at = now
            /\ \A p \in Procs :
                 (h[p].pc = "v_update" /\ Steps(p) /\ h[p].acct = a
                    /\ accounts'[a].exists /\ accounts'[a].argon_token = h[p].token)
                 => accounts'[a].token_validated_at = now]_vars

\* C33 as stated: a Validate whose token is the one the accounts row holds
\* answers InternalError or Unauthorized only on the answer Argon gave to
\* its own request, whatever a concurrent Validate of the same account and
\* token has done meanwhile, the insertion of the row included.
C33_ConcurrentValidateIndependent ==
    [][\A p \in Procs :
         (/\ h[p].op = "Validate" /\ Steps(p)
          /\ h'[p].pc = "done" /\ h'[p].status \in {"InternalError", "Unauthorized"}
          /\ accounts[h[p].acct].exists
          /\ accounts[h[p].acct].argon_token = h[p].token)
         => h[p].pc = "v_remote"]_vars

\* C34 as stated: every saves row belongs to an account that has an
\* accounts row.
C34_SaveHasAccount ==
    \A a \in DOMAIN saves : saves[a].exists => accounts[a].exists

\* C35: the timer execWithRetries waits for after its first attempt runs
\* 200 milliseconds and the one after its second attempt 400; a wait is
\* begun only after a transient error of the first or the second attempt,
\* never after the third attempt, a success or a permanent error.
C35_BackoffDoubles ==
    /\ [](/\ retry.pc = "select" => retry.timer = (IF retry.attempt = 1 THEN 200 ELSE 400)
          /\ retry.waits \in {<<>>, <<200>>, <<200, 400>>}
          /\ retry.pc = "exec" => Len(retry.waits) = retry.calls)
    /\ [][retry'.pc = "select" /\ retry.pc # "select"
          => (retry'.calls \in {1, 2} /\ retry'.lastErr \in TransientErrors)]_vars

\* C35 witness: the third attempt is about to be made, after a wait of 200
\* and a wait of 400 milliseconds
C35_Witness ==
    /\ retry.pc = "exec"
    /\ retry.attempt = 3
    /\ retry.waits = <<200, 400>>

\* C36: an Inspect changes no row of accounts or saves; the step that
\* answers it reports the lengths of the two blobs, their sum as totalSize,
\* and as free space the fraction max(0, quota - totalSize) / quota of 100,
\* between 0 and 100; for an account without a saves row it reports sizes 0
\* and 100 percent.  (A failed lookup answers InternalError and reports
\* nothing.)
C36_InspectReadOnly ==
    [][\A p \in Procs :
         (h[p].op = "Inspect" /\ Steps(p)) =>
           /\ UNCHANGED <<accounts, saves>>
           /\ (h[p].pc = "c_select") =>
                LET d == h'[p].diag
                    row == saves[h[p].acct]
                    quota == d.maxDataSize
                    num == d.freeSpacePercentage[1]
                    den == d.freeSpacePercentage[2]
                    left == IF quota - d.totalSize > 0 THEN quota - d.totalSize ELSE 0
                IN h'[p].status = "OK" =>
                     /\ quota = (IF h[p].isSubscriber THEN SUBSCRIBER_MAX_DATA_SIZE_BYTES
                                 ELSE MAX_DATA_SIZE_BYTES)
                     /\ d.totalSize = d.saveData + d.levelData
                     /\ den > 0 /\ num >= 0 /\ num <= 100 * den
                     /\ num * quota = left * 100 * den
                     /\ row.exists => (d.saveData = Len(row.save_data) /\ d.levelData = Len(row.level_data))
                     /\ ~row.exists => (d.saveData = 0 /\ d.levelData = 0 /\ d.totalSize = 0
                                          /\ num = 100 * den)]_vars

\* C36 witness: an Inspect has answered for an account that holds more than
\* its quota, reporting 0 percent free, while the other goroutine has
\* answered one too
C36_Witness ==
    /\ h[1].op = "Inspect" /\ h[1].pc = "done" /\ h[1].status = "OK"
    /\ h[1].diag.totalSize > h[1].diag.maxDataSize
    /\ h[1].diag.freeSpacePercentage[1] = 0
    /\ h[2].op = "Inspect" /\ h[2].pc = "done" /\ h[2].status = "OK"

\* C37: the timestamp recorded for an account changes only in the step that
\* lets a request of that account pass, to that request's own timestamp,
\* which is later than the one recorded before; the step that refuses a
\* request leaves every recorded timestamp as it was.
C37_StampOnlyWhenAllowed ==
    [][/\ \A a \in Rows :
            limiter'.lastSaveAt[a] # limiter.lastSaveAt[a]
            => /\ \E p \in Procs :
                    /\ limiter.g[p].pc = "mark" /\ Moves(p)
                    /\ limiter.g[p].acct = a
                    /\ limiter'.g[p].pc = "write"
                    /\ limiter'.lastSaveAt[a] = limiter.g[p].now
               /\ limiter'.lastSaveAt[a] # NULL
               /\ limiter.lastSaveAt[a] # NULL => limiter'.lastSaveAt[a] > limiter.lastSaveAt[a]
       /\ \A p \in Procs :
            (Moves(p) /\ limiter'.g[p].status = "RateLimited")
            => limiter'.lastSaveAt = limiter.lastSaveAt]_vars

\* C37 witness: requests of an account were let pass at 0 and at 11; one
\* that came at 5 or 6 was refused and one that came at 11 or 12 is refused,
\* and the recorded timestamp is 11
C37_Witness ==
    \E p, q \in Procs, a \in Rows :
      /\ p # q
      /\ limiter.granted[a] = {0, 11}
      /\ limiter.lastSaveAt[a] = 11
      /\ limiter.g[p].acct = a /\ limiter.g[p].status = "RateLimited"
      /\ limiter.g[p].last = 0
      /\ limiter.g[q].acct = a /\ limiter.g[q].status = "RateLimited"
      /\ limiter.g[q].last = 11

\* C38 as stated: with a positive minimum interval, a request bearing the
\* account's valid credential is refused as rate limited only when a
\* request bearing the valid credential was let pass for the account less
\* than the interval before it.
C38_InvalidRequestsDoNotThrottle ==
    [][\A p \in Procs :
         LET r == limiter.g[p]
             v == limiter.verified[r.acct]
         IN (/\ r.pc = "read" /\ Moves(p)
             /\ r.cred = "valid"
             /\ limiter'.g[p].status = "RateLimited")
            => (v # NULL /\ r.now - v < limiter.minInterval)]_vars

\* C39 as stated: when a Save has answered QuotaExceeded or InternalError,
\* the saves row of its account is as the call found it: none if there was
\* none, and otherwise the same blobs and the same timestamp.
C39_FailedSaveLeavesRecord ==
    \A p \in Procs :
      (/\ h[p].op = "Save" /\ h[p].pc = "done"
       /\ h[p].status \in {"QuotaExceeded", "InternalError"})
      => saves[h[p].acct] = h[p].before

====
